---- MODULE Spec2Model ----
(***************************************************************************)
(* HomeLoanOrchestrator (src/backend/orchestration_agent.py): a LangGraph  *)
(* StateGraph over WorkflowState, run in supersteps.  In one superstep the *)
(* scheduled nodes run concurrently, each against the snapshot of the      *)
(* channels taken when the superstep began; the conditional edge of a node *)
(* is evaluated in the node's own task against that snapshot plus the      *)
(* node's own update; the updates are applied to the channels only when    *)
(* every task of the superstep has finished.                               *)
(*                                                                         *)
(* Python dicts are functions with a domain of string keys; {} is the      *)
(* function with the empty domain.  None is the string "None".             *)
(***************************************************************************)
EXTENDS Integers, Sequences, FiniteSets, TLC

VARIABLES
    pc,          \* position of run_workflow: "idle", "running", "returned"
    runs,        \* number of run_workflow calls made on this orchestrator
    state,       \* the WorkflowState channels of the run in flight
    tasks,       \* nodes scheduled in the current superstep
    writes,      \* update dict returned by each finished task of the superstep
    triggered,   \* nodes the finished tasks' outgoing edges have selected
    step,        \* index of the current superstep
    progress,    \* self.progress
    returned,    \* dict returned by run_workflow
    execs,       \* history: executions of each node's function in this run
    written,     \* history: per channel, the nodes whose updates were applied
    recorded     \* history: the error strings the stage functions recorded in this run

vars == <<pc, runs, state, tasks, writes, triggered, step, progress, returned,
          execs, written, recorded>>

\* ------------------------------------------------------------------ bounds

MaxRuns == 2

\* ------------------------------------------------------------- Python dict

None == "None"

EmptyDict == [k \in {} |-> ""]

Get(d, k, default) == IF k \in DOMAIN d THEN d[k] ELSE default

Truthy(d) == DOMAIN d # {}

Without(d, k) == [x \in DOMAIN d \ {k} |-> d[x]]

\* d.update(u)
Update(d, u) == [x \in DOMAIN d \cup DOMAIN u |-> IF x \in DOMAIN u THEN u[x] ELSE d[x]]

\* ------------------------------------------------------------ the graph

FanOut == {"document_validator", "credit_score_agent", "property_valuation_agent"}

Nodes == FanOut \cup {"eligibility_agent", "approval_recommender", "finalize_status"}

WorkflowState == {"applicant_data", "document_paths", "credit_score_result",
                  "document_validation_result", "property_valuation_result",
                  "eligibility_result", "approval_recommendation",
                  "workflow_status", "doc_errors", "prop_errors",
                  "elig_errors", "rec_errors"}

NoProgress == [n \in Nodes |-> FALSE]

\* ------------------------------------------------------------------ inputs

BaseApplicant ==
    [applicant_name |-> "A", full_name |-> "A", pan_number |-> "PAN",
     monthly_income |-> 20000, loan_amount |-> 7000000,
     property_value |-> 10000000, credit_score |-> 720,
     employment_status |-> "salaried", existing_loans |-> 5000,
     property_details |-> [size_sqft |-> 1200]]

\* applicant_data values run_workflow is called with
Applicants ==
    { BaseApplicant,
      [BaseApplicant EXCEPT !.loan_amount = 8000000],
      [BaseApplicant EXCEPT !.property_value = 0],
      Without(BaseApplicant, "employment_status"),
      Without(BaseApplicant, "pan_number"),
      Without(BaseApplicant, "property_details"),
      [BaseApplicant EXCEPT !.property_details = [size_sqft |-> 0]],
      [BaseApplicant EXCEPT !.property_details = EmptyDict],
      Without(Without(BaseApplicant, "pan_number"), "property_details"),
      EmptyDict }

\* document_paths values run_workflow is called with
DocumentPaths == { EmptyDict, [pan |-> "s3://bucket/pan.pdf"] }

\* ---------------------------------------------------------- collaborators
\* What a call of an external collaborator can come back with: a returned
\* dict, or a raised exception.

Returns(v) == [raises |-> FALSE, value |-> v]

Raises(msg) == [raises |-> TRUE, message |-> msg]

\* consolidated applicant_name of DocumentValidatorAgent.run: the single name
\* read from the documents, or None when the documents disagree
ConsolidatedNames == {"A", "B", None}

\* DocumentValidatorAgent.validate_documents, running the extraction without
\* looking at the documents list first
validate_documents_unguarded(application_data) ==
    { Returns([status |-> s, data |-> [applicant_name |-> n]]) :
          s \in {"success", "partial_success"}, n \in ConsolidatedNames }
    \cup { Returns([status |-> "error", message |-> "Document validation failed"]) }

\* DocumentValidatorAgent.validate_documents
validate_documents(application_data) ==
    IF "documents" \notin DOMAIN application_data \/ ~Truthy(application_data.documents)
    THEN { Returns([status |-> "error", message |-> "Required documents not provided"]) }
    ELSE { Returns([status |-> s, data |-> [applicant_name |-> n]]) :
               s \in {"success", "partial_success"}, n \in ConsolidatedNames }
         \cup { Returns([status |-> "error", message |-> "Document validation failed"]) }

\* one bureau's report, as _fetch_credit_reports builds it
Report(status, credit_score) == [status |-> status, credit_score |-> credit_score]

\* the reports _fetch_credit_reports comes back with in a run: the scores are
\* random, and the experian report alone can have status "error"
FetchedReports ==
    { [cibil |-> Report("success", 720), experian |-> Report("success", 720),
       equifax |-> Report("success", 720)],
      [cibil |-> Report("success", 650), experian |-> Report("error", 800),
       equifax |-> Report("success", 650)] }

RECURSIVE SumScores(_, _)
\* sum of the credit_score of the bureaus in the set
SumScores(credit_reports, bureaus) ==
    IF bureaus = {} THEN 0
    ELSE LET b == CHOOSE x \in bureaus : TRUE
         IN  credit_reports[b].credit_score + SumScores(credit_reports, bureaus \ {b})

\* round(total / count, 0): to the nearest integer, a tie to the even one
RoundedAverage(total, count) ==
    LET q == total \div count
        r == total % count
    IN  IF 2 * r < count THEN q
        ELSE IF 2 * r > count THEN q + 1
        ELSE IF q % 2 = 0 THEN q ELSE q + 1

\* valid_scores of _analyze_credit_score, taking every report that has a score
valid_scores_any(credit_reports) ==
    { b \in DOMAIN credit_reports : credit_reports[b].credit_score # 0 }

\* valid_scores of _analyze_credit_score, as the bureaus they come from
valid_scores(credit_reports) ==
    { b \in DOMAIN credit_reports :
          /\ Get(credit_reports[b], "status", None) = "success"
          /\ credit_reports[b].credit_score # 0 }

\* CreditScoreAgent._analyze_credit_score
_analyze_credit_score(credit_reports) ==
    IF valid_scores(credit_reports) = {}
    THEN [status |-> "error", message |-> "No valid credit scores available",
          credit_score |-> None]
    ELSE [status |-> "completed",
          credit_score |-> RoundedAverage(
              SumScores(credit_reports, valid_scores(credit_reports)),
              Cardinality(valid_scores(credit_reports))),
          bureau_reports |-> credit_reports]

\* CreditScoreAgent.get_credit_score, given what _fetch_credit_reports
\* comes back with
get_credit_score_of(application_data, credit_reports) ==
    IF Get(application_data, "pan_number", "") = ""
    THEN [status |-> "error",
          message |-> "PAN number required for credit score check",
          credit_score |-> None]
    ELSE _analyze_credit_score(credit_reports)

\* CreditScoreAgent.get_credit_score
get_credit_score(application_data) ==
    { Returns(get_credit_score_of(application_data, credit_reports)) :
          credit_reports \in FetchedReports }

\* what the model path of predict_property_value meets: no trained model was
\* loaded, or model.predict returns a value, or the model path raises
ModelOutcomes == {"untrained", "predicts", "raises"}

\* the value model.predict returns
predicted_value == 9000000

\* city_prices['default'], for a city outside the table
base_price == 10000

\* age_adjustment, in hundredths
age_adjustment(age_years) == IF 100 - age_years > 70 THEN 100 - age_years ELSE 70

\* floor_adjustment, in hundredths
floor_adjustment(floor_number) ==
    IF floor_number > 0 THEN 100 + 2 * floor_number ELSE 90

\* rule_based_valuation, for a property of no listed city or type
\* (base price 10000, type multiplier 1.0); estimated_value / size_sqft
\* raises ZeroDivisionError for size_sqft 0
rule_based_valuation(property_data) ==
    LET estimated_value ==
            ((base_price \div 100) * property_data.size_sqft
                 * age_adjustment(property_data.age_years)
                 * floor_adjustment(property_data.floor_number)) \div 100
    IN  IF property_data.size_sqft = 0
        THEN Raises("float division by zero")
        ELSE Returns([estimated_property_value |-> estimated_value,
                      price_per_sqft |-> estimated_value \div property_data.size_sqft,
                      valuation_method |-> "Rule-Based"])

\* predict_property_value: the model path, and rule_based_valuation when no
\* model is loaded or the model path raises (predicted_value / size_sqft
\* cannot be converted to int for size_sqft 0)
predict_property_value(property_data, model) ==
    IF model = "predicts" /\ property_data.size_sqft # 0
    THEN Returns([estimated_property_value |-> predicted_value,
                  price_per_sqft |-> predicted_value \div property_data.size_sqft,
                  valuation_method |-> "ML Model"])
    ELSE rule_based_valuation(property_data)

\* the property_data predict prepares from property_details
PropertyData(property_details) ==
    [size_sqft |-> Get(property_details, "size_sqft", 0),
     age_years |-> Get(property_details, "age_years", 0),
     floor_number |-> Get(property_details, "floor_number", 0)]

\* PropertyValuationAgent.predict
predict(property_details) ==
    { LET result == predict_property_value(PropertyData(property_details), model)
      IN  IF result.raises
          THEN Returns([status |-> "error",
                        message |-> "Property valuation failed: " \o result.message])
          ELSE Returns([status |-> "success",
                        estimated_property_value |-> result.value.estimated_property_value,
                        price_per_sqft |-> result.value.price_per_sqft,
                        valuation_method |-> result.value.valuation_method])
      : model \in ModelOutcomes }

\* the Bedrock call inside loan_recommender_node
InvokeModelOutcomes == {"text", "api_error"}

\* --------------------------------------------------------- eligibility

\* Applicant.__init__
Applicant(data) ==
    [name |-> Get(data, "full_name", None),
     income |-> Get(data, "monthly_income", 10000),
     loan_amount |-> Get(data, "loan_amount", 0),
     property_value |-> Get(data, "property_value", 10000000),
     credit_score |-> Get(data, "credit_score", 720),
     employment_status |-> Get(data, "employment_status", None),
     existing_debt |-> Get(data, "existing_loans", 0)]

\* EligibilityAgent.rules; the ratios 0.7 and 0.5 as tenths
max_ltv_tenths == 7
max_dti_tenths == 5
min_credit_score == 700
min_income == 15000
allowed_employment == {"salaried", "self-employed"}

YesNo(b) == IF b THEN "Yes" ELSE "No"

\* all(checks.values()): employment_check is a bool, the other checks are the
\* strings 'Yes' and 'No', and a non-empty string is true
AllChecks(checks) ==
    \A k \in DOMAIN checks :
        IF k = "employment_check" THEN checks[k] ELSE checks[k] # ""

\* str.lower() on the employment statuses of the inputs
Lower(str) ==
    CASE str = "Salaried" -> "salaried"
      [] str = "SELF-EMPLOYED" -> "self-employed"
      [] OTHER -> str

\* calculate_ltv(applicant) <= max_ltv, with a strict comparison
LtvWithin_strict(applicant) ==
    10 * applicant.loan_amount < max_ltv_tenths * applicant.property_value

\* calculate_ltv(applicant) <= max_ltv
LtvWithin(applicant) ==
    10 * applicant.loan_amount <= max_ltv_tenths * applicant.property_value

\* calculate_dti(applicant) <= max_dti, dividing the loan amount by the income
DtiWithin_loan(applicant) ==
    10 * applicant.loan_amount <= max_dti_tenths * applicant.income

\* calculate_dti(applicant) <= max_dti
DtiWithin(applicant) ==
    10 * applicant.existing_debt <= max_dti_tenths * applicant.income

\* EligibilityAgent.check_eligibility: <<is_eligible, checks>>, or a raised
\* exception (division by zero, .lower() of None).  a / b <= 0.7 is compared
\* as 10 * a <= 7 * b, which agrees with the float comparison on the amounts
\* of the inputs.
check_eligibility(applicant) ==
    IF applicant.property_value = 0 THEN Raises("division by zero")
    ELSE IF applicant.employment_status = None
         THEN Raises("'NoneType' object has no attribute 'lower'")
    ELSE IF applicant.income = 0 THEN Raises("division by zero")
    ELSE LET checks ==
                 [ltv_check |-> YesNo(LtvWithin(applicant)),
                  credit_score_check |-> YesNo(applicant.credit_score >= min_credit_score),
                  income_check |-> YesNo(applicant.income >= min_income),
                  employment_check |->
                      Lower(applicant.employment_status) \in allowed_employment,
                  dti_check |-> YesNo(DtiWithin(applicant))]
         IN  Returns(<<AllChecks(checks), checks>>)

\* eligibility_node
eligibility_node(node_state) ==
    LET applicant_data == Get(node_state, "applicant_data", EmptyDict) IN
    IF ~Truthy(applicant_data)
    THEN Returns(Update(node_state, [error |-> "Missing applicant_data"]))
    ELSE LET r == check_eligibility(Applicant(applicant_data)) IN
         IF r.raises THEN r
         ELSE Returns(Update(node_state,
                  [eligibility_result |-> r.value[1],
                   eligibility_checks |-> r.value[2],
                   applicant_name |-> Applicant(applicant_data).name]))

\* loan_recommender_node, given what the Bedrock call comes back with
loan_recommender_node(node_state, outcome) ==
    LET data == Get(node_state, "applicant_data", EmptyDict) IN
    IF ~Truthy(data)
    THEN Update(node_state, [error |-> "Missing applicant_data in state"])
    ELSE IF outcome = "text"
         THEN Update(node_state, [loan_recommendation |-> [text |-> "text", table |-> <<>>]])
         ELSE Update(node_state, [error |-> "Claude API error"])

\* ------------------------------------------------------ stage functions
\* Each takes the snapshot of the channels the task was given and what its
\* collaborator came back with, and yields the update dict the node returns.

ErrorResult(msg) == [status |-> "error", message |-> msg]

_run_document_validator(st, outcome) ==
    LET result == outcome.value
        app_name == Get(st.applicant_data, "applicant_name", "")
        doc_name == Get(Get(result, "data", EmptyDict), "applicant_name", "")
        failed == [document_validation_result |-> ErrorResult("AttributeError"),
                   doc_errors |-> <<"Document validation error">>]
    IN  IF outcome.raises
        THEN [document_validation_result |-> ErrorResult(outcome.message),
              doc_errors |-> <<"Document validation error">>]
        ELSE IF app_name = None \/ doc_name = None THEN failed
        ELSE IF app_name # "" /\ doc_name # "" /\ app_name # doc_name
             THEN [document_validation_result |->
                       Update(result,
                              [validation_report |->
                                   [checks |-> <<[check |-> "Name Match", status |-> "Failure"]>>,
                                    overall_status |-> "Failure"]]),
                   doc_errors |-> <<>>]
             ELSE [document_validation_result |-> result, doc_errors |-> <<>>]

\* _run_credit_score_agent, also setting the overall status on an error result
_run_credit_score_agent_status(st, outcome) ==
    IF outcome.raises
    THEN [credit_score_result |-> ErrorResult(outcome.message),
          credit_errors |-> <<"Credit score error">>]
    ELSE IF Get(outcome.value, "status", None) = "error"
         THEN [credit_score_result |-> outcome.value, credit_errors |-> <<>>,
               workflow_status |-> "failed"]
         ELSE [credit_score_result |-> outcome.value, credit_errors |-> <<>>]

_run_credit_score_agent(st, outcome) ==
    IF outcome.raises
    THEN [credit_score_result |-> ErrorResult(outcome.message),
          credit_errors |-> <<"Credit score error">>]
    ELSE [credit_score_result |-> outcome.value, credit_errors |-> <<>>]

\* outcome is what predict comes back with; it is not called when
\* property_details is missing
_run_property_valuation_agent(st, outcome) ==
    IF "property_details" \notin DOMAIN st.applicant_data
    THEN [property_valuation_result |-> ErrorResult("Missing property details"),
          prop_errors |-> <<"Property valuation error">>]
    ELSE IF outcome.raises
         THEN [property_valuation_result |-> ErrorResult(outcome.message),
               prop_errors |-> <<"Property valuation error">>]
         ELSE [property_valuation_result |-> outcome.value, prop_errors |-> <<>>]

\* _run_eligibility_agent, reading the credit score out of the credit slot
_run_eligibility_agent_reads(st) ==
    LET node_state == [applicant_data |-> st.applicant_data,
                       property_valuation_result |-> st.property_valuation_result,
                       document_validation_result |-> st.document_validation_result,
                       credit_score_result |-> st.credit_score_result]
        r == eligibility_node(node_state)
    IN  IF r.raises \/ Get(st.credit_score_result, "status", None) = "error"
        THEN [eligibility_result |-> ErrorResult("KeyError"),
              elig_errors |-> <<"Eligibility check error">>]
        ELSE [eligibility_result |->
                  [is_eligible |-> Get(r.value, "eligibility_result", None),
                   checks |-> Get(r.value, "eligibility_checks", None),
                   applicant_name |-> Get(r.value, "applicant_name", None)],
              elig_errors |-> <<>>]

\* _run_eligibility_agent, passing the bureau score of the credit slot to
\* eligibility_node as the applicant's credit_score
_run_eligibility_agent_score(st) ==
    LET applicant_data ==
            IF Get(st.credit_score_result, "status", None) = "completed"
            THEN Update(st.applicant_data,
                        [credit_score |-> st.credit_score_result.credit_score])
            ELSE st.applicant_data
        r == eligibility_node([applicant_data |-> applicant_data])
    IN  IF r.raises
        THEN [eligibility_result |-> ErrorResult(r.message),
              elig_errors |-> <<"Eligibility check error">>]
        ELSE [eligibility_result |->
                  [is_eligible |-> Get(r.value, "eligibility_result", None),
                   checks |-> Get(r.value, "eligibility_checks", None),
                   applicant_name |-> Get(r.value, "applicant_name", None)],
              elig_errors |-> <<>>]

_run_eligibility_agent(st) ==
    LET node_state == [applicant_data |-> st.applicant_data,
                       property_valuation_result |-> st.property_valuation_result,
                       document_validation_result |-> st.document_validation_result,
                       credit_score_result |-> st.credit_score_result]
        r == eligibility_node(node_state)
    IN  IF r.raises
        THEN [eligibility_result |-> ErrorResult(r.message),
              elig_errors |-> <<"Eligibility check error">>]
        ELSE [eligibility_result |->
                  [is_eligible |-> Get(r.value, "eligibility_result", None),
                   checks |-> Get(r.value, "eligibility_checks", None),
                   applicant_name |-> Get(r.value, "applicant_name", None)],
              elig_errors |-> <<>>]

\* _run_approval_recommender, storing the credit score it defaulted into
\* applicant_data
_run_approval_recommender_defaults(st, outcome) ==
    [approval_recommendation |-> ErrorResult("Unknown recommendation error"),
     rec_errors |-> <<"Approval recommendation error">>,
     applicant_data |-> Update(st.applicant_data, [credit_score |-> 700])]

_run_approval_recommender(st, outcome) ==
    LET node_state == [applicant_data |-> st.applicant_data,
                       eligibility_result |-> st.eligibility_result,
                       property_valuation_result |-> st.property_valuation_result,
                       credit_score_result |-> st.credit_score_result]
        updated_state == loan_recommender_node(node_state, outcome)
    IN  IF "loan_recommendation" \in DOMAIN updated_state
        THEN [approval_recommendation |->
                  [recommendation |-> updated_state.loan_recommendation.text,
                   table |-> updated_state.loan_recommendation.table,
                   status |-> "success"],
              rec_errors |-> <<>>]
        ELSE IF "loan_recommendation_text" \in DOMAIN updated_state
        THEN [approval_recommendation |->
                  [recommendation |-> updated_state.loan_recommendation_text,
                   status |-> "success"],
              rec_errors |-> <<>>]
        ELSE [approval_recommendation |->
                  ErrorResult(Get(updated_state, "error", "Unknown recommendation error")),
              rec_errors |-> <<"Approval recommendation error">>]

\* state.get("doc_errors", []) + state.get("credit_errors", []) + ...
all_errors(st) ==
    Get(st, "doc_errors", <<>>) \o Get(st, "credit_errors", <<>>)
    \o Get(st, "prop_errors", <<>>) \o Get(st, "elig_errors", <<>>)
    \o Get(st, "rec_errors", <<>>)

ResultSlots == {"document_validation_result", "credit_score_result",
                "property_valuation_result", "eligibility_result",
                "approval_recommendation"}

\* AnyStageError looking at the three fan-out results only
AnyStageError_fanout(st) ==
    \E k \in {"document_validation_result", "credit_score_result",
              "property_valuation_result"} : Get(st[k], "status", None) = "error"

AnyStageError(st) ==
    \E k \in ResultSlots : Get(st[k], "status", None) = "error"

\* FinalStatus with the two tests in the other order
FinalStatus_swapped(st) ==
    IF all_errors(st) # <<>> THEN "partial_success"
    ELSE IF AnyStageError(st) THEN "failed"
    ELSE "success"

FinalStatus(st) ==
    IF AnyStageError(st) THEN "failed"
    ELSE IF all_errors(st) # <<>> THEN "partial_success"
    ELSE "success"

\* _finalize_workflow_status returning the status under the key "status"
_finalize_workflow_status_key(st) ==
    [status |-> FinalStatus(st),
     doc_errors |-> <<>>, prop_errors |-> <<>>,
     elig_errors |-> <<>>, rec_errors |-> <<>>,
     errors |-> all_errors(st)]

_finalize_workflow_status(st) ==
    [workflow_status |-> FinalStatus(st),
     doc_errors |-> <<>>, prop_errors |-> <<>>,
     elig_errors |-> <<>>, rec_errors |-> <<>>,
     errors |-> all_errors(st)]

\* _should_proceed_to_eligibility testing the document result alone
_should_proceed_to_eligibility_doc(st) ==
    IF Truthy(Get(st, "document_validation_result", EmptyDict))
    THEN "continue"
    ELSE "wait"

_should_proceed_to_eligibility(st) ==
    IF /\ Truthy(Get(st, "document_validation_result", EmptyDict))
       /\ Truthy(Get(st, "credit_score_result", EmptyDict))
       /\ Truthy(Get(st, "property_valuation_result", EmptyDict))
    THEN "continue"
    ELSE "wait"

\* -------------------------------------------------------------- scheduler

\* a node's update as the graph takes it: keys that are no channel of
\* WorkflowState are dropped
ApplyUpdate(st, update) ==
    Update(st, [k \in DOMAIN update \cap WorkflowState |-> update[k]])

\* workflow.add_edge(START, ...), with a direct edge to eligibility_agent added
StartEdges_extra == FanOut \cup {"eligibility_agent"}

\* workflow.add_edge(START, ...)
StartEdges == FanOut

\* workflow.add_edge(a, b), with an edge from eligibility_agent to
\* finalize_status as well
Edges_shortcut(node) ==
    CASE node = "eligibility_agent" -> {"approval_recommender", "finalize_status"}
      [] node = "approval_recommender" -> {"finalize_status"}
      [] OTHER -> {}

\* workflow.add_edge(a, b), without the edge into finalize_status
Edges_nofinalize(node) ==
    CASE node = "eligibility_agent" -> {"approval_recommender"}
      [] OTHER -> {}

\* workflow.add_edge(a, b), b # END
Edges(node) ==
    CASE node = "eligibility_agent" -> {"approval_recommender"}
      [] node = "approval_recommender" -> {"finalize_status"}
      [] OTHER -> {}

\* workflow.add_conditional_edges(node, _should_proceed_to_eligibility,
\*     {"continue": "eligibility_agent", "wait": node}); the path function
\* reads the superstep's snapshot with this node's own update applied
ConditionalEdge(node, st, update) ==
    IF _should_proceed_to_eligibility(ApplyUpdate(st, update)) = "continue"
    THEN "eligibility_agent"
    ELSE node

\* default recursion_limit of app.invoke
recursion_limit == 25

\* [{"type": t, "path": p} for t, p in document_paths.items()]
RECURSIVE Items(_)
Items(d) ==
    IF DOMAIN d = {} THEN <<>>
    ELSE LET t == CHOOSE x \in DOMAIN d : TRUE
         IN  <<[type |-> t, path |-> d[t]]>> \o Items(Without(d, t))

\* WorkflowState(...) in run_workflow
initial_state(applicant_data, document_paths) ==
    [applicant_data |-> applicant_data,
     document_paths |-> document_paths,
     document_validation_result |-> EmptyDict,
     credit_score_result |-> EmptyDict,
     property_valuation_result |-> EmptyDict,
     eligibility_result |-> EmptyDict,
     approval_recommendation |-> EmptyDict,
     workflow_status |-> "started",
     doc_errors |-> <<>>, prop_errors |-> <<>>,
     elig_errors |-> <<>>, rec_errors |-> <<>>]

NoWrites == [n \in {} |-> EmptyDict]

\* the keys of the finished tasks' updates that are channels of the graph
ChannelKeys(n) == DOMAIN writes[n] \cap WorkflowState

\* two tasks of one superstep updated the same LastValue channel
InvalidUpdate ==
    \E n1, n2 \in DOMAIN writes : n1 # n2 /\ ChannelKeys(n1) \cap ChannelKeys(n2) # {}

\* the channels after the superstep's updates are applied
Applied ==
    [k \in DOMAIN state |->
        IF \E n \in DOMAIN writes : k \in ChannelKeys(n)
        THEN writes[CHOOSE n \in DOMAIN writes : k \in ChannelKeys(n)][k]
        ELSE state[k]]

\* the except branch of run_workflow, reporting the workflow status "failed"
WorkflowFailed_failed(e) ==
    [status |-> "failed", message |-> "Workflow execution failed: " \o e, errors |-> <<e>>]

\* the except branch of run_workflow; e is str(e)
\* the dict run_workflow returns when app.invoke has returned final_state
ReturnValue(final_state) ==
    [status |-> final_state.workflow_status,
     results |-> [document_validation |-> final_state.document_validation_result,
                  credit_score |-> final_state.credit_score_result,
                  property_valuation |-> final_state.property_valuation_result,
                  eligibility |-> final_state.eligibility_result,
                  approval_recommendation |-> final_state.approval_recommendation],
     errors |-> Get(final_state, "errors", <<>>)]

WorkflowFailed(e) ==
    [status |-> "error", message |-> "Workflow execution failed: " \o e, errors |-> <<e>>]

Ready(node) == pc = "running" /\ node \in tasks /\ node \notin DOMAIN writes

\* _update_progress, switching the flag instead of setting it
_update_progress_toggle(p, node_name) == [p EXCEPT ![node_name] = ~@]

\* _update_progress
_update_progress(p, node_name) == [p EXCEPT ![node_name] = TRUE]

\* the keys under which the stage functions return their error strings
StageErrorKeys == {"doc_errors", "credit_errors", "prop_errors", "elig_errors",
                   "rec_errors"}

\* the error strings an update of a stage function holds
ErrorStrings(update) ==
    UNION { {update[k][i] : i \in DOMAIN update[k]} : k \in DOMAIN update \cap StageErrorKeys }

\* a task: the node's function has returned update and the node's outgoing
\* edges have selected their targets
Finish(node, update, targets) ==
    /\ writes' = (node :> update) @@ writes
    /\ triggered' = triggered \cup targets
    /\ execs' = [execs EXCEPT ![node] = @ + 1]
    /\ recorded' = recorded \cup ErrorStrings(update)
    /\ UNCHANGED <<pc, runs, state, tasks, step, returned, written>>

Init ==
    /\ pc = "idle"
    /\ runs = 0
    /\ state = initial_state(EmptyDict, EmptyDict)
    /\ tasks = {}
    /\ writes = NoWrites
    /\ triggered = {}
    /\ step = 0
    /\ progress = NoProgress
    /\ returned = EmptyDict
    /\ execs = [n \in Nodes |-> 0]
    /\ written = [k \in WorkflowState |-> <<>>]
    /\ recorded = {}

\* run_workflow is called: the initial state is built and the graph entered
RunWorkflow ==
    /\ pc \in {"idle", "returned"}
    /\ runs < MaxRuns
    /\ \E applicant_data \in Applicants, document_paths \in DocumentPaths :
           state' = initial_state(applicant_data, document_paths)
    /\ pc' = "running"
    /\ runs' = runs + 1
    /\ tasks' = StartEdges
    /\ writes' = NoWrites
    /\ triggered' = {}
    /\ step' = 1
    /\ returned' = EmptyDict
    /\ execs' = [n \in Nodes |-> 0]
    /\ written' = [k \in WorkflowState |-> <<>>]
    /\ recorded' = {}
    /\ UNCHANGED progress

DocumentValidator ==
    /\ Ready("document_validator")
    /\ \E outcome \in validate_documents([documents |-> Items(state.document_paths),
                                          details |-> state.applicant_data]) :
          LET update == _run_document_validator(state, outcome)
          IN  Finish("document_validator", update,
                     {ConditionalEdge("document_validator", state, update)})
    /\ progress' = _update_progress(progress, "document_validator")

CreditScoreAgent ==
    /\ Ready("credit_score_agent")
    /\ \E outcome \in get_credit_score(state.applicant_data) :
          LET update == _run_credit_score_agent(state, outcome)
          IN  Finish("credit_score_agent", update,
                     {ConditionalEdge("credit_score_agent", state, update)})
    /\ progress' = _update_progress(progress, "credit_score_agent")

PropertyValuationAgent ==
    /\ Ready("property_valuation_agent")
    /\ \E outcome \in predict(Get(state.applicant_data, "property_details", EmptyDict)) :
          LET update == _run_property_valuation_agent(state, outcome)
          IN  Finish("property_valuation_agent", update,
                     {ConditionalEdge("property_valuation_agent", state, update)})
    /\ progress' = _update_progress(progress, "property_valuation_agent")

EligibilityAgentNode ==
    /\ Ready("eligibility_agent")
    /\ Finish("eligibility_agent", _run_eligibility_agent(state),
              Edges("eligibility_agent"))
    /\ progress' = _update_progress(progress, "eligibility_agent")

ApprovalRecommender ==
    /\ Ready("approval_recommender")
    /\ \E outcome \in InvokeModelOutcomes :
          Finish("approval_recommender", _run_approval_recommender(state, outcome),
                 Edges("approval_recommender"))
    /\ progress' = _update_progress(progress, "approval_recommender")

\* _finalize_workflow_status makes no call of _update_progress
FinalizeStatus ==
    /\ Ready("finalize_status")
    /\ Finish("finalize_status", _finalize_workflow_status(state),
              Edges("finalize_status"))
    /\ UNCHANGED progress

\* every task of the superstep has finished: the updates are applied to the
\* channels and the selected nodes become the next superstep's tasks
EndSuperstep ==
    /\ pc = "running"
    /\ tasks # {}
    /\ DOMAIN writes = tasks
    /\ IF InvalidUpdate \/ (triggered # {} /\ step + 1 > recursion_limit)
       THEN /\ pc' = "returned"
            /\ returned' = WorkflowFailed(IF InvalidUpdate THEN "InvalidUpdateError"
                                          ELSE "GraphRecursionError")
            /\ tasks' = {}
            /\ UNCHANGED <<state, written, step>>
       ELSE /\ state' = Applied
            /\ written' = [k \in WorkflowState |->
                              IF \E n \in DOMAIN writes : k \in ChannelKeys(n)
                              THEN Append(written[k],
                                          CHOOSE n \in DOMAIN writes : k \in ChannelKeys(n))
                              ELSE written[k]]
            /\ tasks' = triggered
            /\ step' = step + 1
            /\ UNCHANGED <<pc, returned>>
    /\ writes' = NoWrites
    /\ triggered' = {}
    /\ UNCHANGED <<runs, progress, execs, recorded>>

\* app.invoke has returned final_state: run_workflow returns its result dict
Return ==
    /\ pc = "running"
    /\ tasks = {}
    /\ pc' = "returned"
    /\ returned' = ReturnValue(state)
    /\ UNCHANGED <<runs, state, tasks, writes, triggered, step, progress, execs, written,
                   recorded>>

\* app.invoke raises: the except branch of run_workflow
InvokeRaises ==
    /\ pc = "running"
    /\ pc' = "returned"
    /\ returned' = WorkflowFailed("Exception")
    /\ tasks' = {}
    /\ writes' = NoWrites
    /\ triggered' = {}
    /\ UNCHANGED <<runs, state, step, progress, execs, written, recorded>>

\* reset_progress, called between two runs
ResetProgress ==
    /\ pc \in {"idle", "returned"}
    /\ progress' = NoProgress
    /\ UNCHANGED <<pc, runs, state, tasks, writes, triggered, step, returned, execs,
                   written, recorded>>

\* get_progress: the dict self.progress itself
get_progress == progress

Next ==
    \/ RunWorkflow
    \/ DocumentValidator
    \/ CreditScoreAgent
    \/ PropertyValuationAgent
    \/ EligibilityAgentNode
    \/ ApprovalRecommender
    \/ FinalizeStatus
    \/ EndSuperstep
    \/ Return
    \/ InvokeRaises
    \/ ResetProgress

Spec == Init /\ [][Next]_vars

\* ------------------------------------------------------------ properties

\* run_workflow has returned the dict built from final_state
ReturnedFinalState == pc = "returned" /\ "results" \in DOMAIN returned

Status(d) == Get(d, "status", None)

Range(seq) == {seq[i] : i \in DOMAIN seq}

\* C1: the status run_workflow returns is one of success, partial_success,
\* failed and error, whatever the stages did; "started" is never returned.
C1_StatusIsTerminal ==
    pc = "returned" =>
        returned.status \in {"success", "partial_success", "failed", "error"}

\* a run returned although the document stage raised and was caught
C1_Witness ==
    /\ ReturnedFinalState
    /\ returned.results.document_validation = ErrorResult("AttributeError")
    /\ Status(returned.results.credit_score) = "completed"
    /\ returned.status = "failed"

\* C2: workflow_status is written once per run, by finalize_status only: no
\* other node's update holds it, and its value leaves "started" only through
\* the one application of finalize's update.
C2_StatusWrittenOnlyByFinalize ==
    /\ written["workflow_status"] \in {<<>>, <<"finalize_status">>}
    /\ \A n \in DOMAIN writes \ {"finalize_status"} :
           "workflow_status" \notin DOMAIN writes[n]
    /\ state.workflow_status # "started" => written["workflow_status"] # <<>>
    /\ ReturnedFinalState => written["workflow_status"] = <<"finalize_status">>

C2_Witness ==
    /\ ReturnedFinalState
    /\ written["workflow_status"] = <<"finalize_status">>
    /\ \A n \in Nodes : execs[n] > 0

Populated(st) ==
    /\ Truthy(st.document_validation_result)
    /\ Truthy(st.credit_score_result)
    /\ Truthy(st.property_valuation_result)

\* C3: eligibility_agent is scheduled, and runs, only on channels in which
\* all three fan-out results are populated, in every order in which the
\* fan-out tasks finish.
C3_EligibilityAfterFanOut ==
    ("eligibility_agent" \in tasks \/ execs["eligibility_agent"] > 0) => Populated(state)

\* eligibility_agent has run, the credit task having finished first and the
\* document task last in the superstep before
C3_Witness ==
    /\ "eligibility_agent" \in DOMAIN writes
    /\ Populated(state)
    /\ Status(state.property_valuation_result) = "error"

\* C4: each fan-out node's function runs exactly once in a run.
C4_FanOutRunsOnce ==
    /\ \A n \in FanOut : execs[n] <= 1
    /\ ReturnedFinalState => \A n \in FanOut : execs[n] = 1

SequentialTail == {"eligibility_agent", "approval_recommender", "finalize_status"}

\* C5: eligibility_agent, approval_recommender and finalize_status each run
\* exactly once in a run, although three conditional edges select
\* eligibility_agent in the same superstep.
C5_TailRunsOnce ==
    /\ \A n \in SequentialTail : execs[n] <= 1
    /\ ReturnedFinalState => \A n \in SequentialTail : execs[n] = 1

C5_Witness ==
    /\ ReturnedFinalState
    /\ \A n \in SequentialTail : execs[n] = 1
    /\ \A n \in FanOut : execs[n] > 0

FanOutSlots == {"document_validation_result", "credit_score_result",
                "property_valuation_result"}

FailureMarkers(st) == {k \in FanOutSlots : Status(st[k]) = "error"}

\* check_eligibility raises on this applicant_data whatever the other slots hold
EligibilityRaises(applicant_data) ==
    Truthy(applicant_data) /\ check_eligibility(Applicant(applicant_data)).raises

C7_SlotsWrittenOnce ==
    /\ [](\A k \in ResultSlots : Len(written[k]) <= 1)
    /\ [][(pc = "running" /\ pc' = "running") =>
             \A k \in ResultSlots : Truthy(state[k]) => state'[k] = state[k]]_vars

\* the node the annotation of each WorkflowState field names as its writer
Owner(k) ==
    CASE k \in {"document_validation_result", "doc_errors"} -> "document_validator"
      [] k \in {"property_valuation_result", "prop_errors"} -> "property_valuation_agent"
      [] k \in {"eligibility_result", "elig_errors"} -> "eligibility_agent"
      [] k \in {"approval_recommendation", "rec_errors"} -> "approval_recommender"
      [] k = "workflow_status" -> "finalize_status"
      [] k = "credit_score_result" -> "credit_score_agent"
      [] OTHER -> None

\* C8: every field of WorkflowState has at most one writing node, its own:
\* no node, finalize_status included, writes the result slot or the error
\* list of another node.
C8_SingleWriterPerField ==
    \A k \in WorkflowState : Range(written[k]) \subseteq {Owner(k)}

\* ------------------------------------------------- finalize on its own
\* _finalize_workflow_status applied to every combination of stage results
\* and error lists a WorkflowState can hold when the finalize superstep begins.

SlotValues == {[status |-> "success"], ErrorResult("failure"), [is_eligible |-> TRUE]}

ErrorLists == {<<>>, <<"error">>}

InitFinalize ==
    /\ pc = "running"
    /\ runs = 1
    /\ \E d, c, p, e, a \in SlotValues, de, pe, ee, re \in ErrorLists :
           state = [initial_state(BaseApplicant, EmptyDict) EXCEPT
                       !.document_validation_result = d,
                       !.credit_score_result = c,
                       !.property_valuation_result = p,
                       !.eligibility_result = e,
                       !.approval_recommendation = a,
                       !.doc_errors = de, !.prop_errors = pe,
                       !.elig_errors = ee, !.rec_errors = re]
    /\ tasks = {"finalize_status"}
    /\ writes = NoWrites
    /\ triggered = {}
    /\ step = 5
    /\ progress = [n \in Nodes |-> n # "finalize_status"]
    /\ returned = EmptyDict
    /\ execs = [n \in Nodes |-> 0]
    /\ written = [k \in WorkflowState |-> <<>>]
    /\ recorded = {}

NextFinalize == FinalizeStatus \/ EndSuperstep \/ Return

SpecFinalize == InitFinalize /\ [][NextFinalize]_vars

\* C9: finalize's status is failed iff one of the five stage results has
\* status "error", partial_success iff none has and the accumulated error
\* list is non-empty, success iff none has and the list is empty.
C9_FinalizeClassification ==
    "finalize_status" \in DOMAIN writes =>
        LET status == writes["finalize_status"].workflow_status
            failure == \E k \in ResultSlots :
                           "status" \in DOMAIN state[k] /\ state[k].status = "error"
            errors == state.doc_errors \o state.prop_errors
                      \o state.elig_errors \o state.rec_errors
        IN  /\ status = "failed" <=> failure
            /\ status = "partial_success" <=> (~failure /\ errors # <<>>)
            /\ status = "success" <=> (~failure /\ errors = <<>>)

\* finalize has classified a state with an error entry and a failed stage
C9_Witness ==
    /\ "finalize_status" \in DOMAIN writes
    /\ state.rec_errors # <<>>
    /\ Status(state.credit_score_result) = "error"
    /\ writes["finalize_status"].workflow_status = "failed"

\* ------------------------------------------------------- settled states
\* The channels finalize_status is given, as a function of the inputs and of
\* what the collaborators came back with in the last execution of each node.

Settled(applicant_data, document_paths, d, c, p, r) ==
    LET s0 == initial_state(applicant_data, document_paths)
        s1 == ApplyUpdate(ApplyUpdate(ApplyUpdate(s0,
                  _run_document_validator(s0, d)),
                  _run_credit_score_agent(s0, c)),
                  _run_property_valuation_agent(s0, p))
        s2 == ApplyUpdate(s1, _run_eligibility_agent(s1))
    IN  ApplyUpdate(s2, _run_approval_recommender(s2, r))

SettledStates ==
    UNION { UNION { { Settled(a, dp, d, c, p, r) :
                          d \in validate_documents([documents |-> Items(dp), details |-> a]),
                          c \in get_credit_score(a),
                          p \in predict(Get(a, "property_details", EmptyDict)),
                          r \in InvokeModelOutcomes }
                    : dp \in DocumentPaths }
            : a \in Applicants }

\* finalize_status runs on a settled state only
SettledStatesCover ==
    (pc = "running" /\ "finalize_status" \in tasks) => state \in SettledStates

\* C10: some run returns partial_success: when run_workflow is called there
\* are inputs and collaborator outcomes for which finalize is given a state
\* in which no stage result has status "error" and the accumulated error
\* list holds an entry.
C10_PartialSuccessReachable ==
    pc \in {"idle", "returned"} =>
        \E st \in SettledStates :
            _finalize_workflow_status(st).workflow_status = "partial_success"

\* no run returns partial_success
C10_NeverPartialSuccess ==
    pc = "returned" => returned.status # "partial_success"

\* ------------------------------------------------------ errors and faults

\* C11: the errors list run_workflow returns holds every error string a stage
\* function recorded in the run.
C11_ErrorsReturned ==
    ReturnedFinalState => recorded \subseteq Range(returned.errors)

\* the approval_recommendation a run on applicant_data can end with, whatever
\* the other slots hold
RecommendationsFor(applicant_data) ==
    { _run_approval_recommender(initial_state(applicant_data, EmptyDict), r).approval_recommendation :
          r \in InvokeModelOutcomes }

\* C12: an exception raised inside a stage function stays inside it: the
\* stage's slot becomes {"status": "error", "message": ...}, the run returns
\* failed, and the slots of the other stages hold what their own stage
\* function yields from the inputs alone.
C12_StageExceptionIsolated ==
    ReturnedFinalState =>
        LET a == state.applicant_data
            res == returned.results
        IN  /\ EligibilityRaises(a) =>
                   res.eligibility = ErrorResult(check_eligibility(Applicant(a)).message)
            /\ "property_details" \notin DOMAIN a =>
                   res.property_valuation = ErrorResult("Missing property details")
            /\ (\E k \in DOMAIN res : Status(res[k]) = "error") => returned.status = "failed"
            /\ res.credit_score \in {o.value : o \in get_credit_score(a)}
            /\ "property_details" \in DOMAIN a =>
                   res.property_valuation \in {o.value : o \in predict(a.property_details)}
            /\ res.approval_recommendation \in RecommendationsFor(a)

\* check_eligibility divided by a zero property_value: the eligibility slot
\* is the only failure and the run is failed
C12_Witness ==
    /\ ReturnedFinalState
    /\ returned.results.eligibility = ErrorResult("division by zero")
    /\ Status(returned.results.document_validation) = "success"
    /\ Status(returned.results.credit_score) = "completed"
    /\ Status(returned.results.property_valuation) = "success"
    /\ Status(returned.results.approval_recommendation) = "success"
    /\ returned.status = "failed"

\* ------------------------------------------------------------ termination
\* The runs in which app.invoke itself does not raise.  The executor runs
\* every task of a superstep, the graph loop ends every superstep whose tasks
\* have finished, and run_workflow returns when app.invoke does.  Whether a
\* run ends does not depend on the runs before it (RunWorkflow replaces
\* everything a run reads), so the runs are bounded separately here.

MaxFairRuns == 1

NextFair ==
    \/ (runs < MaxFairRuns /\ RunWorkflow)
    \/ DocumentValidator
    \/ CreditScoreAgent
    \/ PropertyValuationAgent
    \/ EligibilityAgentNode
    \/ ApprovalRecommender
    \/ FinalizeStatus
    \/ EndSuperstep
    \/ Return

FairSpec ==
    /\ Init
    /\ [][NextFair]_vars
    /\ WF_vars(DocumentValidator)
    /\ WF_vars(CreditScoreAgent)
    /\ WF_vars(PropertyValuationAgent)
    /\ WF_vars(EligibilityAgentNode)
    /\ WF_vars(ApprovalRecommender)
    /\ WF_vars(FinalizeStatus)
    /\ WF_vars(EndSuperstep)
    /\ WF_vars(Return)

\* C13: every run in which the collaborator calls come back reaches
\* finalize_status and returns final_state to the caller, whatever the stages
\* came back with: it neither waits at the gate for ever nor returns without
\* finalize_status having run.
C13_RunReachesFinalize ==
    (pc = "running") ~> (ReturnedFinalState /\ execs["finalize_status"] = 1)

\* a run in which all three fan-out stages failed has returned after finalize
C13_Witness ==
    /\ ReturnedFinalState
    /\ execs["finalize_status"] = 1
    /\ FailureMarkers(state) = FanOutSlots
    /\ returned.status = "failed"
    /\ step = 6

\* --------------------------------------------------- scheduler exceptions
\* C14: an exception of the graph execution is not propagated: a run that ends
\* while the graph still has tasks returns status "error" with the exception's
\* text as its one error, and no "results".
C14_SchedulerExceptionReturned ==
    [][(pc = "running" /\ tasks # {} /\ pc' = "returned") =>
          /\ DOMAIN returned' = {"status", "message", "errors"}
          /\ returned'.status = "error"
          /\ Len(returned'.errors) = 1
          /\ returned'.message = "Workflow execution failed: " \o returned'.errors[1]]_vars

\* app.invoke raised after the fan-out stages had run
C14_Witness ==
    /\ pc = "returned"
    /\ returned.status = "error"
    /\ "results" \notin DOMAIN returned
    /\ \A n \in FanOut : execs[n] >= 1
    /\ execs["eligibility_agent"] = 0

\* --------------------------------------------------------------- progress
\* C15: when run_workflow has begun and no stage of the run has completed,
\* get_progress() reports every flag false, on every run of the instance.
C15_FreshProgress ==
    (pc = "running" /\ \A n \in Nodes : execs[n] = 0) =>
        \A n \in Nodes : ~get_progress[n]

\* C16: after run_workflow has returned a status produced by finalize, all six
\* flags are true, and a flag is true only if its stage completed in the run.
C16_AllFlagsAfterRun ==
    ReturnedFinalState =>
        /\ \A n \in Nodes : get_progress[n]
        /\ \A n \in Nodes : get_progress[n] => execs[n] >= 1

\* C17: while a run is in flight a flag that is true stays true, whatever
\* stage completes next and whenever get_progress is read.
C17_ProgressMonotone ==
    [][(pc = "running" /\ pc' = "running") =>
          \A n \in Nodes : get_progress[n] => get_progress'[n]]_vars

\* a fan-out stage has completed twice in the first run and its flag is set
C17_Witness ==
    /\ pc = "running"
    /\ runs = 1
    /\ execs["document_validator"] = 2
    /\ get_progress["document_validator"]
    /\ ~get_progress["eligibility_agent"]

\* ------------------------------------------------------------ eligibility
\* check_eligibility as a function of the applicant: the eligibility stage is
\* applied to an applicant drawn from amounts on both sides of every limit.

PropertyValues == {0, 10000000}
LoanAmounts == {7000000, 7000001, 8000000}
CreditScores == {699, 700, 720}
Incomes == {0, 14999, 15000, 20000}
ExistingLoans == {5000, 7500, 7501}
EmploymentStatuses == {None, "salaried", "self-employed", "retired", "Salaried"}

EligibilityApplicants ==
    { LET data == [full_name |-> "A", monthly_income |-> i, loan_amount |-> l,
                   property_value |-> pv, credit_score |-> c,
                   employment_status |-> e, existing_loans |-> d]
      IN  IF e = None THEN Without(data, "employment_status") ELSE data :
      pv \in PropertyValues, l \in LoanAmounts, c \in CreditScores, i \in Incomes,
      d \in ExistingLoans, e \in EmploymentStatuses }

InitEligibility ==
    /\ pc = "running"
    /\ runs = 1
    /\ \E applicant_data \in EligibilityApplicants :
           state = initial_state(applicant_data, EmptyDict)
    /\ tasks = {"eligibility_agent"}
    /\ writes = NoWrites
    /\ triggered = {}
    /\ step = 3
    /\ progress = [n \in Nodes |-> n \in FanOut]
    /\ returned = EmptyDict
    /\ execs = [n \in Nodes |-> IF n \in FanOut THEN 2 ELSE 0]
    /\ written = [k \in WorkflowState |-> <<>>]
    /\ recorded = {}

NextEligibility == EligibilityAgentNode

SpecEligibility == InitEligibility /\ [][NextEligibility]_vars

\* the eligibility stage has come back with check_eligibility's two values
Checked ==
    /\ "eligibility_agent" \in DOMAIN writes
    /\ "checks" \in DOMAIN writes["eligibility_agent"].eligibility_result

is_eligible == writes["eligibility_agent"].eligibility_result.is_eligible
checks == writes["eligibility_agent"].eligibility_result.checks
applicant == Applicant(state.applicant_data)

\* C18: is_eligible is true if and only if all five rules pass.
C18_EligibleIffAllRules ==
    Checked =>
        (is_eligible = TRUE <=>
            /\ 10 * applicant.loan_amount <= max_ltv_tenths * applicant.property_value
            /\ applicant.credit_score >= min_credit_score
            /\ applicant.income >= min_income
            /\ Lower(applicant.employment_status) \in allowed_employment
            /\ 10 * applicant.existing_debt <= max_dti_tenths * applicant.income)

\* C19: an applicant exactly at the LTV limit, with the other four rules met
\* (at their limits included), is eligible and all five checks pass.
C19_LimitsInclusive ==
    (/\ Checked
     /\ 10 * applicant.loan_amount = max_ltv_tenths * applicant.property_value
     /\ applicant.credit_score >= min_credit_score
     /\ applicant.income >= min_income
     /\ applicant.employment_status = "salaried"
     /\ 10 * applicant.existing_debt <= max_dti_tenths * applicant.income) =>
        /\ is_eligible = TRUE
        /\ checks = [ltv_check |-> "Yes", credit_score_check |-> "Yes",
                     income_check |-> "Yes", employment_check |-> TRUE,
                     dti_check |-> "Yes"]

\* loan 7,000,000 on 10,000,000, score 700, income 15,000, debt 7,500, salaried
C19_Witness ==
    /\ Checked
    /\ applicant.loan_amount = 7000000
    /\ applicant.property_value = 10000000
    /\ applicant.credit_score = 700
    /\ applicant.income = 15000
    /\ applicant.existing_debt = 7500
    /\ applicant.employment_status = "salaried"
    /\ is_eligible = TRUE

\* C20: each of the five checks is reported passing exactly when its own rule
\* holds, whatever the other rules give.
C20_ChecksIndependent ==
    Checked =>
        /\ checks.ltv_check = "Yes" <=>
               10 * applicant.loan_amount <= max_ltv_tenths * applicant.property_value
        /\ checks.ltv_check \in {"Yes", "No"}
        /\ checks.credit_score_check = "Yes" <=> applicant.credit_score >= min_credit_score
        /\ checks.credit_score_check \in {"Yes", "No"}
        /\ checks.income_check = "Yes" <=> applicant.income >= min_income
        /\ checks.income_check \in {"Yes", "No"}
        /\ checks.employment_check = TRUE <=>
               Lower(applicant.employment_status) \in allowed_employment
        /\ checks.dti_check = "Yes" <=>
               10 * applicant.existing_debt <= max_dti_tenths * applicant.income
        /\ checks.dti_check \in {"Yes", "No"}

\* loan 8,000,000 on 10,000,000: only ltv_check is reported failing
C20_Witness ==
    /\ Checked
    /\ applicant.loan_amount = 8000000
    /\ applicant.property_value = 10000000
    /\ checks = [ltv_check |-> "No", credit_score_check |-> "Yes",
                 income_check |-> "Yes", employment_check |-> TRUE,
                 dti_check |-> "Yes"]

\* ------------------------------------------------------ property valuation
\* the property valuation stage has come back in this superstep
Valued == "property_valuation_agent" \in DOMAIN writes

\* C21: the property valuation stage ends in Failure if applicant_data has no
\* property_details, and in Success (status "success") for every
\* property_details otherwise, an absent or zero size_sqft included.
C21_ValuationSucceeds ==
    Valued =>
        LET res == writes["property_valuation_agent"].property_valuation_result
        IN  IF "property_details" \in DOMAIN state.applicant_data
            THEN Status(res) = "success"
            ELSE res = ErrorResult("Missing property details")

\* predict_property_value as a function of the property data and of what its
\* model path meets.

SizesSqft == {0, 1, 600, 1200}
AgeYears == {0, 10, 40}
FloorNumbers == {0, 3}

InitValuation ==
    /\ pc = "predict_property_value"
    /\ runs = 0
    /\ \E s \in SizesSqft, a \in AgeYears, f \in FloorNumbers, m \in ModelOutcomes :
           state = [property_data |-> [size_sqft |-> s, age_years |-> a,
                                       floor_number |-> f],
                    model |-> m]
    /\ tasks = {}
    /\ writes = NoWrites
    /\ triggered = {}
    /\ step = 0
    /\ progress = NoProgress
    /\ returned = EmptyDict
    /\ execs = [n \in Nodes |-> 0]
    /\ written = [k \in WorkflowState |-> <<>>]
    /\ recorded = {}

\* the call of predict_property_value comes back: a returned dict or a raise
PredictPropertyValue ==
    /\ pc = "predict_property_value"
    /\ pc' = "predicted"
    /\ returned' = predict_property_value(state.property_data, state.model)
    /\ UNCHANGED <<runs, state, tasks, writes, triggered, step, progress, execs,
                   written, recorded>>

NextValuation == PredictPropertyValue

SpecValuation == InitValuation /\ [][NextValuation]_vars

\* C22: whenever the model path is unavailable or raises, predict_property_value
\* returns (it does not raise) a valuation with valuation_method "Rule-Based"
\* and an estimated_property_value that is a number.
C22_FallbackAlwaysValues ==
    (/\ pc = "predicted"
     /\ \/ state.model \in {"untrained", "raises"}
        \/ state.property_data.size_sqft = 0) =>
        /\ ~returned.raises
        /\ returned.value.valuation_method = "Rule-Based"
        /\ returned.value.estimated_property_value \in Int

\* ------------------------------------------------------------ no documents
\* C23: a run with empty document_paths ends the document_validation stage
\* with the "documents not provided" error result (the extraction, whose
\* results are other dicts, is not attempted), the credit and property stages
\* still run and fill their slots, and the overall status is failed.
C23_NoDocumentsFails ==
    (ReturnedFinalState /\ state.document_paths = EmptyDict) =>
        /\ returned.results.document_validation =
               ErrorResult("Required documents not provided")
        /\ execs["credit_score_agent"] >= 1
        /\ execs["property_valuation_agent"] >= 1
        /\ Truthy(returned.results.credit_score)
        /\ Truthy(returned.results.property_valuation)
        /\ returned.status = "failed"

\* no documents, and the credit and property stages both succeeded
C23_Witness ==
    /\ ReturnedFinalState
    /\ state.document_paths = EmptyDict
    /\ Status(returned.results.document_validation) = "error"
    /\ Status(returned.results.credit_score) = "completed"
    /\ Status(returned.results.property_valuation) = "success"
    /\ returned.status = "failed"

\* ----------------------------------------------------------- credit score
\* get_credit_score as a function of the application data and of the reports
\* the bureaus come back with.

CibilScores == {600, 701, 850}
ExperianScores == {580, 700, 830}
EquifaxScores == {590, 700, 840}
PanNumbers == {None, "", "PAN"}

InitCredit ==
    /\ pc = "get_credit_score"
    /\ runs = 0
    /\ \E pan \in PanNumbers, c \in CibilScores, x \in ExperianScores,
          q \in EquifaxScores, xs \in {"success", "error"} :
           state = [application_data |->
                        IF pan = None THEN [full_name |-> "A"]
                        ELSE [full_name |-> "A", pan_number |-> pan],
                    credit_reports |->
                        [cibil |-> Report("success", c), experian |-> Report(xs, x),
                         equifax |-> Report("success", q)]]
    /\ tasks = {}
    /\ writes = NoWrites
    /\ triggered = {}
    /\ step = 0
    /\ progress = NoProgress
    /\ returned = EmptyDict
    /\ execs = [n \in Nodes |-> 0]
    /\ written = [k \in WorkflowState |-> <<>>]
    /\ recorded = {}

\* get_credit_score returns
GetCreditScore ==
    /\ pc = "get_credit_score"
    /\ pc' = "scored"
    /\ returned' = get_credit_score_of(state.application_data, state.credit_reports)
    /\ UNCHANGED <<runs, state, tasks, writes, triggered, step, progress, execs,
                   written, recorded>>

NextCredit == GetCreditScore

SpecCredit == InitCredit /\ [][NextCredit]_vars

\* the bureaus whose report came back with status success
Succeeded == { b \in DOMAIN state.credit_reports :
                   state.credit_reports[b].status = "success" }

\* C24: without a pan_number the credit result is an error; with one it is a
\* completed result whose score is the rounded average of exactly the reports
\* with status success, also when a bureau failed.
C24_ScoreOverSuccessfulBureaus ==
    pc = "scored" =>
        IF Get(state.application_data, "pan_number", "") = ""
        THEN /\ returned.status = "error"
             /\ returned.credit_score = None
        ELSE LET total == SumScores(state.credit_reports, Succeeded)
                 count == Cardinality(Succeeded)
                 twice == 2 * (count * returned.credit_score - total)
             IN  /\ returned.status = "completed"
                 /\ twice <= count
                 /\ -twice <= count

\* experian failed, and the score is that of the two other bureaus
C24_Witness ==
    /\ pc = "scored"
    /\ state.application_data = [full_name |-> "A", pan_number |-> "PAN"]
    /\ state.credit_reports.experian = Report("error", 580)
    /\ state.credit_reports.cibil.credit_score = 850
    /\ state.credit_reports.equifax.credit_score = 840
    /\ returned.status = "completed"
    /\ returned.credit_score = 845

\* -------------------------------------------------------- sequential tail
\* C25: approval_recommender is scheduled, and runs, only after
\* eligibility_agent has completed and its result is in the channels;
\* finalize_status only after approval_recommender has; and when
\* finalize_status is scheduled all five result slots are non-empty.
C25_TailOrdered ==
    /\ ("approval_recommender" \in tasks \/ execs["approval_recommender"] > 0) =>
           /\ execs["eligibility_agent"] = 1
           /\ "eligibility_agent" \notin tasks
           /\ Truthy(state.eligibility_result)
    /\ ("finalize_status" \in tasks \/ execs["finalize_status"] > 0) =>
           /\ execs["approval_recommender"] = 1
           /\ "approval_recommender" \notin tasks
           /\ \A k \in ResultSlots : Truthy(state[k])

\* finalize_status has run in the fifth superstep on a successful recommendation
C25_Witness ==
    /\ pc = "running"
    /\ "finalize_status" \in DOMAIN writes
    /\ step = 5
    /\ Status(state.approval_recommendation) = "success"
    /\ \A k \in ResultSlots : Truthy(state[k])

\* ------------------------------------------------------------------ inputs
\* C26: from the moment run_workflow has built the state until it returns,
\* applicant_data and document_paths in the channels are the values it was
\* called with: no step of a run changes them and no stage's update names them.
C26_InputsUnchanged ==
    [][pc = "running" =>
          /\ state'.applicant_data = state.applicant_data
          /\ state'.document_paths = state.document_paths
          /\ \A n \in DOMAIN writes' :
                 DOMAIN writes'[n] \cap {"applicant_data", "document_paths"} = {}]_vars

\* a run on the applicant with the 8,000,000 loan has gone through all stages
C26_Witness ==
    /\ ReturnedFinalState
    /\ state.applicant_data = [BaseApplicant EXCEPT !.loan_amount = 8000000]
    /\ state.document_paths = [pan |-> "s3://bucket/pan.pdf"]
    /\ \A n \in Nodes : execs[n] >= 1

\* ------------------------------------------------------- two calls at once
\* Two calls of run_workflow on one HomeLoanOrchestrator, in every
\* interleaving of their supersteps.  Here runs holds each call's arguments,
\* pc each call's position, state each call's channels and returned each
\* call's return value; progress is the one map of the instance.

Calls == {1, 2}

\* where a call's channels live, were they kept on the instance
Channels_shared(call) == 1

\* where a call's channels live: initial_state and final_state are locals of
\* the call, and app.invoke builds its channels from its argument
Channels(call) == call

CallApplicants == { BaseApplicant, Without(BaseApplicant, "pan_number") }

InitCalls ==
    /\ pc = [call \in Calls |-> "idle"]
    /\ runs = [call \in Calls |-> EmptyDict]
    /\ state = [call \in Calls |-> initial_state(EmptyDict, EmptyDict)]
    /\ returned = [call \in Calls |-> EmptyDict]
    /\ progress = NoProgress
    /\ tasks = {}
    /\ writes = NoWrites
    /\ triggered = {}
    /\ step = 0
    /\ execs = [n \in Nodes |-> 0]
    /\ written = [k \in WorkflowState |-> <<>>]
    /\ recorded = {}

\* a call moves on to the given position with the given channels
Advance(call, position, channels) ==
    /\ pc' = [pc EXCEPT ![call] = position]
    /\ state' = [state EXCEPT ![Channels(call)] = channels]
    /\ UNCHANGED <<tasks, writes, triggered, step, execs, written, recorded>>

\* run_workflow is called and builds initial_state
CallRunWorkflow(call) ==
    /\ pc[call] = "idle"
    /\ \E applicant_data \in CallApplicants, document_paths \in DocumentPaths :
          /\ runs' = [runs EXCEPT ![call] = [applicant_data |-> applicant_data,
                                             document_paths |-> document_paths]]
          /\ Advance(call, "fan_out", initial_state(applicant_data, document_paths))
    /\ UNCHANGED <<returned, progress>>

\* the supersteps of the three fan-out nodes
CallFanOut(call) ==
    /\ pc[call] = "fan_out"
    /\ LET s0 == state[Channels(call)] IN
       \E d \in validate_documents([documents |-> Items(s0.document_paths),
                                    details |-> s0.applicant_data]),
          c \in get_credit_score(s0.applicant_data),
          p \in predict(Get(s0.applicant_data, "property_details", EmptyDict)) :
           Advance(call, "eligibility_agent",
                   ApplyUpdate(ApplyUpdate(ApplyUpdate(s0,
                       _run_document_validator(s0, d)),
                       _run_credit_score_agent(s0, c)),
                       _run_property_valuation_agent(s0, p)))
    /\ progress' = [n \in Nodes |-> progress[n] \/ n \in FanOut]
    /\ UNCHANGED <<runs, returned>>

\* the superstep of eligibility_agent
CallEligibility(call) ==
    /\ pc[call] = "eligibility_agent"
    /\ LET s1 == state[Channels(call)] IN
       Advance(call, "approval_recommender", ApplyUpdate(s1, _run_eligibility_agent(s1)))
    /\ progress' = _update_progress(progress, "eligibility_agent")
    /\ UNCHANGED <<runs, returned>>

\* the superstep of approval_recommender
CallApproval(call) ==
    /\ pc[call] = "approval_recommender"
    /\ LET s2 == state[Channels(call)] IN
       \E r \in InvokeModelOutcomes :
           Advance(call, "finalize_status",
                   ApplyUpdate(s2, _run_approval_recommender(s2, r)))
    /\ progress' = _update_progress(progress, "approval_recommender")
    /\ UNCHANGED <<runs, returned>>

\* the superstep of finalize_status
CallFinalize(call) ==
    /\ pc[call] = "finalize_status"
    /\ LET s3 == state[Channels(call)] IN
       Advance(call, "invoked", ApplyUpdate(s3, _finalize_workflow_status(s3)))
    /\ UNCHANGED <<runs, returned, progress>>

\* app.invoke returns final_state and run_workflow returns
CallReturn(call) ==
    /\ pc[call] = "invoked"
    /\ pc' = [pc EXCEPT ![call] = "returned"]
    /\ returned' = [returned EXCEPT ![call] = ReturnValue(state[Channels(call)])]
    /\ UNCHANGED <<runs, state, progress, tasks, writes, triggered, step, execs,
                   written, recorded>>

NextCalls ==
    \/ \E call \in Calls : CallRunWorkflow(call)
    \/ \E call \in Calls : CallFanOut(call)
    \/ \E call \in Calls : CallEligibility(call)
    \/ \E call \in Calls : CallApproval(call)
    \/ \E call \in Calls : CallFinalize(call)
    \/ \E call \in Calls : CallReturn(call)

SpecCalls == InitCalls /\ [][NextCalls]_vars

\* what a call with these arguments can return, over the outcomes of its own
\* collaborator calls
ReturnValuesOf(applicant_data, document_paths) ==
    { LET st == Settled(applicant_data, document_paths, d, c, p, r)
      IN  ReturnValue(ApplyUpdate(st, _finalize_workflow_status(st))) :
          d \in validate_documents([documents |-> Items(document_paths),
                                    details |-> applicant_data]),
          c \in get_credit_score(applicant_data),
          p \in predict(Get(applicant_data, "property_details", EmptyDict)),
          r \in InvokeModelOutcomes }

\* C27: what each of two calls on one instance returns is a value that its own
\* arguments and its own collaborator outcomes give, however the two calls'
\* steps interleave.
C27_CallsIsolated ==
    \A call \in Calls :
        pc[call] = "returned" =>
            \E value \in ReturnValuesOf(runs[call].applicant_data,
                                        runs[call].document_paths) :
                /\ returned[call].status = value.status
                /\ \A k \in DOMAIN value.results :
                       Status(returned[call].results[k]) = Status(value.results[k])
                /\ returned[call] = value

\* the first call has returned a failure for want of a pan_number while the
\* second, begun with other arguments, is between its supersteps
C27_Witness ==
    /\ pc[1] = "returned"
    /\ pc[2] = "approval_recommender"
    /\ runs[1].applicant_data = Without(BaseApplicant, "pan_number")
    /\ runs[2].applicant_data = BaseApplicant
    /\ Status(returned[1].results.credit_score) = "error"
    /\ Status(state[2].credit_score_result) = "completed"

\* ------------------------------------------- eligibility and its inputs
\* the eligibility_result the stage gives for this applicant_data when the
\* three fan-out slots are empty
EligibilityOf(applicant_data) ==
    _run_eligibility_agent(initial_state(applicant_data, EmptyDict)).eligibility_result

\* C28: the eligibility_result of a run is the one its applicant_data gives,
\* whatever the document, credit and property slots hold (failure markers,
\* other scores and valuations included): runs with equal applicant_data
\* have equal eligibility results.
C28_EligibilityOfApplicantAlone ==
    "eligibility_agent" \in DOMAIN writes =>
        writes["eligibility_agent"].eligibility_result
            = EligibilityOf(state.applicant_data)

\* eligibility has run for the base applicant on a failed document result, a
\* bureau score below the floor and a rule-based valuation
C28_Witness ==
    /\ "eligibility_agent" \in DOMAIN writes
    /\ state.applicant_data = BaseApplicant
    /\ Status(state.document_validation_result) = "error"
    /\ Status(state.credit_score_result) = "completed"
    /\ state.credit_score_result.credit_score = 650
    /\ state.property_valuation_result.valuation_method = "Rule-Based"
    /\ "checks" \in DOMAIN writes["eligibility_agent"].eligibility_result
    /\ writes["eligibility_agent"].eligibility_result.checks.credit_score_check = "Yes"

\* ---------------------------------------------------------------- backend
\* The session store of backend/main.py and its three endpoints.  Here state
\* holds the module's sessions dict, the application IDs generate_token has
\* issued with the session each was issued to, and the documents stored;
\* returned is the response of the last request, step the requests served.

MaxRequests == 3

SessionIds == {"s1", "s2"}

\* application IDs (HL and 13 digits), in the order generate_token issues them
ApplicationIds == <<"HL0000000000001", "HL0000000000002">>

\* chat messages: what they say besides an application ID, and the ID they
\* hold, if any (words "" with an ID is a message that is exactly an ID)
Messages ==
    { [words |-> w, application_id |-> a] :
          w \in {"", "apply", "upload"}, a \in Range(ApplicationIds) \cup {None} }

\* chatbot.get_response: a reply, a reply with the word application, a raise
Responses == {"reply", "application", "raises"}

sessions == state.sessions

\* the session chat_endpoint creates for an unknown session_id
NewChatSession ==
    [chat_history |-> <<"assistant">>,
     applications |-> EmptyDict,
     show_form_button |-> FALSE,
     show_upload_button |-> FALSE,
     show_update_button |-> FALSE,
     show_cancel_button |-> FALSE,
     current_application_id |-> None]

HTTPException(status_code) == [status_code |-> status_code]

InitBackend ==
    /\ pc = "serving"
    /\ state = [sessions |-> EmptyDict, issued |-> EmptyDict, documents |-> {}]
    /\ returned = EmptyDict
    /\ step = 0
    /\ runs = 0
    /\ tasks = {}
    /\ writes = NoWrites
    /\ triggered = {}
    /\ progress = NoProgress
    /\ execs = [n \in Nodes |-> 0]
    /\ written = [k \in WorkflowState |-> <<>>]
    /\ recorded = {}

\* a request has been served: the store and the response
Served(new_sessions, issued, documents, response) ==
    /\ step < MaxRequests
    /\ step' = step + 1
    /\ state' = [sessions |-> new_sessions, issued |-> issued, documents |-> documents]
    /\ returned' = response
    /\ UNCHANGED <<pc, runs, tasks, writes, triggered, progress, execs, written, recorded>>

\* the session after the application ID detection of chat_endpoint and the
\* append of the user message
AfterUserMessage(session, message) ==
    LET found ==
            IF message.application_id = None THEN session
            ELSE Update(session,
                     [current_application_id |-> message.application_id,
                      applications |->
                          IF message.application_id \in DOMAIN session.applications
                          THEN session.applications
                          ELSE Update(session.applications,
                                   (message.application_id :>
                                        [status |-> IF message.words = ""
                                                    THEN "standalone_id"
                                                    ELSE "found_in_chat"]))])
    IN  [found EXCEPT !.chat_history = Append(@, "user")]

\* POST /api/chat
chat_endpoint ==
    \E session_id \in SessionIds, message \in Messages, response \in Responses :
        LET known == IF session_id \in DOMAIN sessions THEN sessions
                     ELSE Update(sessions, (session_id :> NewChatSession))
            session == known[session_id]
        IN  IF "chat_history" \notin DOMAIN session
            THEN Served(known, state.issued, state.documents, HTTPException(500))
            ELSE LET asked == AfterUserMessage(session, message)
                     replied == Update([asked EXCEPT !.chat_history = Append(@, "assistant")],
                         [show_form_button |->
                              message.words = "apply" \/ response = "application",
                          show_upload_button |->
                              \/ message.words = "upload"
                              \/ Get(asked, "application_status", None)
                                     = "pending_documents"])
                 IN  IF response = "raises"
                     THEN Served(Update(known, (session_id :> asked)),
                                 state.issued, state.documents, HTTPException(500))
                     ELSE IF {"show_update_button", "show_cancel_button"}
                                 \subseteq DOMAIN replied
                     THEN Served(Update(known, (session_id :> replied)),
                                 state.issued, state.documents,
                                 [status_code |-> 200,
                                  response |-> response,
                                  show_form_button |-> replied.show_form_button,
                                  show_upload_button |-> replied.show_upload_button,
                                  show_update_button |-> replied.show_update_button,
                                  show_cancel_button |-> replied.show_cancel_button])
                     ELSE Served(Update(known, (session_id :> replied)),
                                 state.issued, state.documents, HTTPException(500))

\* POST /api/application
submit_application ==
    \E session_id \in SessionIds :
        /\ Cardinality(DOMAIN state.issued) < Len(ApplicationIds)
        /\ LET application_id == ApplicationIds[Cardinality(DOMAIN state.issued) + 1]
               known == IF session_id \in DOMAIN sessions THEN sessions
                        ELSE Update(sessions, (session_id :> [applications |-> EmptyDict]))
               session == known[session_id]
               stored == Update(session,
                   [applications |->
                        Update(session.applications,
                               (application_id :> [status |-> "form_data"])),
                    application_status |-> "pending_documents",
                    current_application_id |-> application_id,
                    chat_history |->
                        Append(Get(session, "chat_history", <<>>), "assistant"),
                    show_upload_button |-> TRUE,
                    show_form_button |-> FALSE])
           IN  Served(Update(known, (session_id :> stored)),
                      Update(state.issued, (application_id :> session_id)),
                      state.documents,
                      [status_code |-> 200, success |-> TRUE,
                       application_id |-> application_id])

\* POST /api/application/{application_id}/documents
upload_document ==
    \E session_id \in SessionIds, application_id \in Range(ApplicationIds),
       stored \in BOOLEAN :
        IF session_id \notin DOMAIN sessions
        THEN Served(sessions, state.issued, state.documents, HTTPException(500))
        ELSE IF Get(sessions[session_id], "current_application_id", None) = None
        THEN Served(sessions, state.issued, state.documents, HTTPException(500))
        ELSE IF application_id # sessions[session_id].current_application_id
        THEN Served(sessions, state.issued, state.documents, HTTPException(500))
        ELSE IF stored
        THEN Served(sessions, state.issued,
                    state.documents \cup {[session_id |-> session_id,
                                           application_id |-> application_id]},
                    [status_code |-> 200, status |-> "success"])
        ELSE Served(sessions, state.issued, state.documents, HTTPException(500))

NextBackend == chat_endpoint \/ submit_application \/ upload_document

SpecBackend == InitBackend /\ [][NextBackend]_vars

\* C29: every stored session has chat_history and the four button flags, so
\* that chat_endpoint can build its ChatResponse from it.
C29_SessionsComplete ==
    \A session_id \in DOMAIN sessions :
        {"chat_history", "show_form_button", "show_upload_button",
         "show_update_button", "show_cancel_button"} \subseteq DOMAIN sessions[session_id]

\* the application IDs submit_application has issued to the session
IssuedTo(session_id) ==
    { a \in DOMAIN state.issued : state.issued[a] = session_id }

\* C30: a session's current_application_id is None or an ID issued to that
\* session by submit_application, and every document stored went to an
\* application of the uploading session.
C30_CurrentIdIssuedToSession ==
    /\ \A session_id \in DOMAIN sessions :
           Get(sessions[session_id], "current_application_id", None)
               \in IssuedTo(session_id) \cup {None}
    /\ \A d \in state.documents : d.application_id \in IssuedTo(d.session_id)

====
